---- MODULE Spec2Model ----
(***************************************************************************)
(* A model of ProcessPool (src/ProcessPool.hpp) and of ProcessQueue        *)
(* (src/ProcessQueue.hpp): a supervisor process forks worker processes,    *)
(* polls a shared completion array and the workers' liveness, kills the    *)
(* survivors and restores SIGCHLD.                                         *)
(*                                                                         *)
(* The supervisor is one sequential process whose position is pc; worker i *)
(* is the process forked at loop index i, with pid i + 1.  Every shared    *)
(* memory access and every system call of the supervisor that can race     *)
(* with a worker is a step of its own.                                     *)
(***************************************************************************)
EXTENDS Integers, Sequences, FiniteSets, TLC

\* ------------------------------------------------------------------ bounds
MaxProcs == 3       \* largest procCount passed to ProcessPool::Create
MaxQueueProcs == 2  \* largest procCount passed to ProcessQueue::Create
MaxRequests == 2    \* largest maxRequestCount of a ProcessQueue
MaxPosts == 3       \* successful Post calls made on one ProcessQueue
LockWaitMs == 2     \* QueueLock's waitMilliseconds (the code's default is 5000)

\* ------------------------------------------------------- program constants
CRASH_TEST_INTERVAL == 10   \* WaitForOne: passes between liveness probes
SIG_DFL == 0                \* <signal.h>: (sighandler_t) 0
SIG_IGN == 1                \* <signal.h>: (sighandler_t) 1
SIG_HANDLER == 2            \* the address of some handler of the caller's
NULLPTR == 0                \* nullptr as a sighandler_t
NULL == 0                   \* nullptr as a Node*
LOCKED == 255               \* (unsigned char)0xff
NodeSize == 16              \* sizeof(Node): Args { int number; } and Node* next
HeaderSize == 48            \* sizeof(RequestQueue)
PARENT == -1                \* mChildIndex of the supervisor

Slots == 0 .. (MaxProcs - 1)
Procs == {PARENT} \cup Slots
\* The offsets at which a queue of maxCount nodes holds its nodes
NodeAddrsOf(maxCount) == {HeaderSize + k * NodeSize : k \in 0 .. (maxCount - 1)}
NodeAddrs == NodeAddrsOf(MaxRequests)
Values == 1 .. MaxPosts     \* the i of "Args args(i)" in TestProcessQueue
Dispositions == {SIG_DFL, SIG_IGN, SIG_HANDLER}

VARIABLES
    pc,                     \* the supervisor's position
    mWaitForAll,            \* ProcessPool::mWaitForAll
    totalChildren,          \* Fork's parameter
    maxChildCount,          \* Fork's local
    i,                      \* Fork's loop index
    childCount,             \* Fork's local: children currently running
    result,                 \* Fork's local, and Create's return value
    mChildrenPIDs,          \* [0 .. size-1 -> [pid, status]]
    mIsChildDoneSize,       \* 0 when mIsChildDone == nullptr
    mIsChildDone,           \* the shared completion array's bytes
    mOld_SIGCHLD_handler,   \* the saved handler
    sigchld,                \* the supervisor's SIGCHLD disposition
    childIndex,             \* WaitForOne's / KillAll's loop index
    crashTestTimer,         \* WaitForOne's local
    haveRunningChildren,    \* WaitForOne's / KillAll's local
    isCrashed,              \* WaitForOne's out parameter
    completedChildPID,      \* WaitForOne's return value
    wfoCaller,              \* who called WaitForOne: "Fork" or "WaitForAll"
    proc,                   \* [Slots -> the worker process's position]
    sigkill,                \* [Slots -> SIGKILL is pending for the live process]
    calledExit,             \* history: [Slots -> "no" | "true" | "false"]
    priorSig,               \* history: SIGCHLD disposition when Create was called
    parentAlive,            \* the supervisor process (mParentPID) exists
    reused,                 \* history: Create was called again after a run
    passDone,               \* history: see DoneAtStart; {} outside WaitForOne
    notified,               \* history: the OnNotify calls of this run, in order
    \* ---- ProcessQueue
    maxRequestCount,        \* the constructor's parameter
    mRequestQueue,          \* TRUE when the supervisor has the queue mapped
    lock,                   \* RequestQueue::lock, 0 or 0xff
    fillPtr,                \* RequestQueue::fillPtr, as an offset into the mapping
    head,                   \* RequestQueue::head (offset of a Node, 0 for NULL)
    tail,                   \* RequestQueue::tail
    free,                   \* RequestQueue::free
    stop,                   \* RequestQueue::stop
    nodeNext,               \* [NodeAddrs -> Node::next]
    nodeArgs,               \* [NodeAddrs -> the ARGS part of the Node]
    waitUseconds,           \* [Procs -> QueueLock's waitUseconds while it spins]
    node,                   \* [Slots -> the worker's local Node* node]
    args,                   \* the argument of the supervisor's current Post
    posted,                 \* history: the args of the successful Posts, in order
    detached,               \* history: the args of the detached nodes, in order
    delivered,              \* history: [value -> times passed to the user function]
    returned                \* history: how the supervisor's last queue call returned

forkVars == <<mWaitForAll, totalChildren, maxChildCount, priorSig, parentAlive,
              reused>>
runVars == <<forkVars, notified>>
callVars == <<runVars, passDone>>
loopVars == <<i, childCount, result>>
sigVars == <<mOld_SIGCHLD_handler, sigchld>>
arrayVars == <<mIsChildDoneSize, mIsChildDone>>
waitVars == <<childIndex, crashTestTimer, haveRunningChildren, isCrashed,
              completedChildPID, wfoCaller>>
procVars == <<proc, sigkill, calledExit>>
shmVars == <<lock, fillPtr, head, tail, free, stop, nodeNext, nodeArgs>>
histVars == <<posted, detached, delivered, returned>>
queueVars == <<maxRequestCount, mRequestQueue, shmVars, waitUseconds, node, args,
               histVars>>
vars == <<pc, callVars, loopVars, sigVars, mChildrenPIDs, arrayVars, waitVars,
          procVars, queueVars>>

\* ----------------------------------------------------------------- helpers
Min(a, b) == IF a < b THEN a ELSE b

ChildPID == [pid |-> 0, status |-> "NOT_RUNNING"]

Size(v) == Cardinality(DOMAIN v)

\* A worker process exists from fork() until it has exited or been killed.
Alive(w) == proc[w] \notin {"none", "dead"}

\* kill(pid, 0) == 0; worker w has pid w + 1
IsProcessAlive(pid) == (pid - 1) \in Slots /\ Alive(pid - 1)

\* mChildrenPIDs with slot k's status replaced
SetStatus(v, k, st) == [v EXCEPT ![k].status = st]

\* The RUNNING slots whose completion byte is set: what a pass of WaitForOne
\* that starts now has to choose from
DoneAtStart(v, arr) == {j \in DOMAIN v : v[j].status = "RUNNING" /\ arr[j] # 0}

\* (mutant of NextRunning) the scan takes the RUNNING records from the top
NextRunning_Last(v, k) ==
    LET S == {j \in DOMAIN v : j >= k /\ v[j].status = "RUNNING"}
    IN  IF S = {} THEN -1 ELSE CHOOSE j \in S : \A h \in S : j >= h

\* The first slot at or after k whose record is RUNNING, or -1
NextRunning(v, k) ==
    LET S == {j \in DOMAIN v : j >= k /\ v[j].status = "RUNNING"}
    IN  IF S = {} THEN -1 ELSE CHOOSE j \in S : \A h \in S : j <= h

\* (mutant of NextNotStopped) KillAll looks at the DONE, idle children only
NextNotStopped_DoneOnly(v, k) ==
    LET S == {j \in DOMAIN v : j >= k /\ v[j].status = "DONE"}
    IN  IF S = {} THEN -1 ELSE CHOOSE j \in S : \A h \in S : j <= h

\* The first slot at or after k whose record is not NOT_RUNNING, or -1
NextNotStopped(v, k) ==
    LET S == {j \in DOMAIN v : j >= k /\ v[j].status # "NOT_RUNNING"}
    IN  IF S = {} THEN -1 ELSE CHOOSE j \in S : \A h \in S : j <= h

\* -------------------------------------------------------------------- Init
\* The queue of a ProcessQueue that has not been created
NoQueue ==
    /\ mRequestQueue = FALSE
    /\ lock = 0
    /\ fillPtr = 0
    /\ head = NULL
    /\ tail = NULL
    /\ free = NULL
    /\ stop = FALSE
    /\ nodeNext = [a \in NodeAddrs |-> NULL]
    /\ nodeArgs = [a \in NodeAddrs |-> 0]
    /\ waitUseconds = [p \in Procs |-> 0]
    /\ node = [w \in Slots |-> NULL]
    /\ args = 0
    /\ posted = << >>
    /\ detached = << >>
    /\ delivered = [v \in {0} \cup Values |-> 0]
    /\ returned = "none"

\* The members of a constructed ProcessPool, before any Create
NoPool ==
    /\ pc = "idle"
    /\ totalChildren = 0
    /\ maxChildCount = 0
    /\ i = 0
    /\ childCount = 0
    /\ result = FALSE
    /\ mChildrenPIDs = << >>
    /\ mIsChildDoneSize = 0
    /\ mIsChildDone = << >>
    /\ mOld_SIGCHLD_handler = NULLPTR
    /\ sigchld \in Dispositions
    /\ priorSig = sigchld
    /\ parentAlive = TRUE
    /\ reused = FALSE
    /\ passDone = {}
    /\ notified = << >>
    /\ childIndex = 0
    /\ crashTestTimer = 0
    /\ haveRunningChildren = FALSE
    /\ isCrashed = FALSE
    /\ completedChildPID = 0
    /\ wfoCaller = "Fork"
    /\ proc = [w \in Slots |-> "none"]
    /\ sigkill = [w \in Slots |-> FALSE]
    /\ calledExit = [w \in Slots |-> "no"]

\* A ProcessPool
Init ==
    /\ mWaitForAll = TRUE
    /\ maxRequestCount = 0
    /\ NoQueue
    /\ NoPool

\* A ProcessQueue<Args>(maxRequestCount): the constructor clears mWaitForAll.
\* TestProcessQueue's process has never changed its SIGCHLD disposition.
InitQueue ==
    /\ mWaitForAll = FALSE
    /\ maxRequestCount \in 1 .. MaxRequests
    /\ NoQueue
    /\ NoPool
    /\ sigchld = SIG_DFL

\* ------------------------------------------------- supervisor: Create, Fork

\* sigaction(SIGCHLD) with a valid handler does not fail: SetSigAction
\* returns true, stores the old handler and installs the new one.

\* PostFork: the disposition after "if(mOld_SIGCHLD_handler && !SetSigAction(..))"
PostForkDisposition(old, cur) == IF old # NULLPTR THEN old ELSE cur

\* Create(procCount, maxConcurrentProcs) calls Fork, on a new instance or on
\* one whose earlier Create has returned; Fork's parameters are set.
\* The processes of an earlier run are gone from the process table, and the
\* locals of the earlier call no longer exist (they restart from their defaults).
ForkCall(procCount, maxConcurrentProcs) ==
    /\ totalChildren' = procCount
    /\ maxChildCount' = Min(procCount,
                            IF maxConcurrentProcs > 0 THEN maxConcurrentProcs
                                                      ELSE procCount)
    /\ priorSig' = sigchld
    /\ notified' = << >>
    /\ proc' = [w \in Slots |-> "none"]
    /\ sigkill' = [w \in Slots |-> FALSE]
    /\ calledExit' = [w \in Slots |-> "no"]
    /\ i' = 0
    /\ childCount' = 0
    /\ result' = FALSE
    /\ childIndex' = 0
    /\ crashTestTimer' = 0
    /\ haveRunningChildren' = FALSE
    /\ isCrashed' = FALSE
    /\ completedChildPID' = 0
    /\ wfoCaller' = "Fork"
    /\ pc' = "PreFork"
    /\ UNCHANGED <<mWaitForAll, parentAlive, passDone, sigVars, mChildrenPIDs,
                   arrayVars>>

\* ProcessPool::Create called by the user of a ProcessPool
Create(procCount, maxConcurrentProcs) ==
    /\ pc \in {"idle", "ret"}
    /\ mWaitForAll
    /\ ForkCall(procCount, maxConcurrentProcs)
    /\ UNCHANGED <<reused, queueVars>>

\* ProcessPool::Create called on a new instance
CreateFirst(procCount, maxConcurrentProcs) ==
    /\ pc = "idle"
    /\ Create(procCount, maxConcurrentProcs)

\* ProcessPool::Create called again on an instance whose Create has returned
CreateAgain(procCount, maxConcurrentProcs) ==
    /\ pc = "ret"
    /\ mWaitForAll
    /\ ForkCall(procCount, maxConcurrentProcs)
    /\ reused' = TRUE
    /\ UNCHANGED queueVars

\* (mutant of FreshRecords) "mChildrenPIDs.clear()" is left out, so that
\* resize keeps the records it finds
FreshRecords_Keep(n) ==
    [k \in 0 .. (n - 1) |->
        IF k \in DOMAIN mChildrenPIDs THEN mChildrenPIDs[k] ELSE ChildPID]

\* "mChildrenPIDs.clear()" and "mChildrenPIDs.resize(totalChildren, ChildPID())"
FreshRecords(n) == [k \in 0 .. (n - 1) |-> ChildPID]

\* "OnNotify(NOTIFY_TYPE::...)" called in the supervisor
OnNotify(seq, notifyType) == Append(seq, notifyType)

\* PreFork succeeds: SIGCHLD ignored, a zeroed completion array mapped; Fork
\* resizes mChildrenPIDs, emits PRE_FORK and starts its loop.
PreForkOk ==
    /\ pc = "PreFork"
    /\ notified' = OnNotify(notified, "PRE_FORK")
    /\ mOld_SIGCHLD_handler' = sigchld
    /\ sigchld' = SIG_IGN
    /\ mIsChildDone' = [k \in 0 .. (totalChildren - 1) |-> 0]
    /\ mIsChildDoneSize' = totalChildren
    /\ mChildrenPIDs' = FreshRecords(totalChildren)
    /\ i' = 0
    /\ childCount' = 0
    /\ result' = TRUE
    /\ pc' = "ForkTop"
    /\ UNCHANGED <<queueVars, forkVars, passDone, waitVars, procVars>>

\* PreFork fails in mmap: PostFork undoes the signal change, Fork returns false.
PreForkFail ==
    /\ pc = "PreFork"
    /\ mOld_SIGCHLD_handler' = sigchld
    /\ sigchld' = PostForkDisposition(sigchld, SIG_IGN)
    /\ mIsChildDone' = << >>
    /\ mIsChildDoneSize' = 0
    /\ mChildrenPIDs' = << >>
    /\ result' = FALSE
    /\ pc' = "ret"
    /\ UNCHANGED <<queueVars, callVars, i, childCount, waitVars, procVars>>

\* for(i...) is over: "if(!result) KillAll.. else POST_FORK, WaitForAll.."
ForkLoopExit ==
    /\ pc = "ForkTop"
    /\ i = totalChildren
    /\ pc' = "ForkEnd"
    /\ UNCHANGED <<queueVars, callVars, loopVars, sigVars, mChildrenPIDs, arrayVars, waitVars,
                   procVars>>

\* (mutant of MustWait) the comparison is off by one
MustWait_OffByOne(count, maxCount) == count > maxCount

\* "if(childCount == maxChildCount)": the loop body must wait before forking
MustWait(count, maxCount) == count = maxCount

\* childCount == maxChildCount: call WaitForOne
ForkWait ==
    /\ pc = "ForkTop"
    /\ passDone' = DoneAtStart(mChildrenPIDs, mIsChildDone)
    /\ i < totalChildren
    /\ MustWait(childCount, maxChildCount)
    /\ wfoCaller' = "Fork"
    /\ crashTestTimer' = CRASH_TEST_INTERVAL
    /\ pc' = "WaitForOne"
    /\ UNCHANGED <<queueVars, runVars, loopVars, sigVars, mChildrenPIDs, arrayVars, childIndex,
                   haveRunningChildren, isCrashed, completedChildPID, procVars>>

\* childCount < maxChildCount: go on to fork()
ForkNoWait ==
    /\ pc = "ForkTop"
    /\ i < totalChildren
    /\ ~MustWait(childCount, maxChildCount)
    /\ pc' = "ForkDo"
    /\ UNCHANGED <<queueVars, callVars, loopVars, sigVars, mChildrenPIDs, arrayVars, waitVars,
                   procVars>>

\* WaitForOne returned into the loop body: a crash aborts the schedule
ForkWaitCrashed ==
    /\ pc = "ForkAfterWait"
    /\ passDone' = {}
    /\ isCrashed
    /\ result' = FALSE
    /\ isCrashed' = FALSE
    /\ completedChildPID' = 0
    /\ pc' = "ForkEnd"
    /\ UNCHANGED <<queueVars, runVars, i, childCount, sigVars, mChildrenPIDs, arrayVars,
                   childIndex, crashTestTimer, haveRunningChildren, wfoCaller,
                   procVars>>

\* (mutant of CountAfterWait) "childCount--" is left out
CountAfterWait_Keep(count, pid) == IF pid = 0 THEN 0 ELSE count

\* childCount after a WaitForOne that reported no crash
CountAfterWait(count, pid) == IF pid = 0 THEN 0 ELSE count - 1

\* WaitForOne returned into the loop body: one child (or all) is done
ForkWaitDone ==
    /\ pc = "ForkAfterWait"
    /\ passDone' = {}
    /\ ~isCrashed
    /\ childCount' = CountAfterWait(childCount, completedChildPID)
    /\ completedChildPID' = 0
    /\ pc' = "ForkDo"
    /\ UNCHANGED <<queueVars, runVars, i, result, sigVars, mChildrenPIDs, arrayVars,
                   childIndex, crashTestTimer, haveRunningChildren, isCrashed,
                   wfoCaller, procVars>>

\* Where the child goes on when Fork returns true in it: the code of
\* ProcessPool::Create's caller, which for a ProcessQueue is the worker loop
ChildStart == IF mWaitForAll THEN "run" ELSE "Loop"

\* fork() succeeds: child i runs the caller's code; the parent emits
\* CHILD_FORK and records the child
ForkChild ==
    /\ pc = "ForkDo"
    /\ notified' = OnNotify(notified, "CHILD_FORK")
    /\ proc' = [proc EXCEPT ![i] = ChildStart]
    /\ mChildrenPIDs' = [mChildrenPIDs EXCEPT ![i] = [pid |-> i + 1, status |-> "RUNNING"]]
    /\ childCount' = childCount + 1
    /\ i' = i + 1
    /\ pc' = "ForkTop"
    /\ UNCHANGED <<queueVars, forkVars, passDone, result, sigVars, arrayVars, waitVars,
                   sigkill, calledExit>>

\* fork() fails: the schedule is aborted
ForkFail ==
    /\ pc = "ForkDo"
    /\ result' = FALSE
    /\ pc' = "ForkEnd"
    /\ UNCHANGED <<queueVars, callVars, i, childCount, sigVars, mChildrenPIDs, arrayVars,
                   waitVars, procVars>>

\* After the loop, something went wrong: KillAll, then PostFork
ForkEndFailed ==
    /\ pc = "ForkEnd"
    /\ ~result
    /\ pc' = "KillAll"
    /\ UNCHANGED <<queueVars, callVars, loopVars, sigVars, mChildrenPIDs, arrayVars, waitVars,
                   procVars>>

\* After the loop, all forked, blocking mode: POST_FORK, then WaitForAll calls
\* WaitForOne
ForkEndWaitForAll ==
    /\ pc = "ForkEnd"
    /\ passDone' = DoneAtStart(mChildrenPIDs, mIsChildDone)
    /\ result
    /\ mWaitForAll
    /\ notified' = OnNotify(notified, "POST_FORK")
    /\ wfoCaller' = "WaitForAll"
    /\ crashTestTimer' = CRASH_TEST_INTERVAL
    /\ pc' = "WaitForOne"
    /\ UNCHANGED <<queueVars, forkVars, loopVars, sigVars, mChildrenPIDs, arrayVars, childIndex,
                   haveRunningChildren, isCrashed, completedChildPID, procVars>>

\* ------------------------------------------------- supervisor: WaitForOne

\* "if(mIsChildDone[childIndex])"
ByteIsSet(arr, k) == arr[k] # 0

\* WaitForOne returns to its caller; its locals no longer exist
WfoReturn(pid, crashed) ==
    /\ completedChildPID' = pid
    /\ isCrashed' = crashed
    /\ childIndex' = 0
    /\ crashTestTimer' = 0
    /\ haveRunningChildren' = FALSE
    /\ pc' = IF wfoCaller = "Fork" THEN "ForkAfterWait" ELSE "WaitForAllCheck"

\* The next RUNNING child has its completion byte set: DONE, return its pid
WfoChildDone ==
    /\ pc = "WaitForOne"
    /\ LET k == NextRunning(mChildrenPIDs, childIndex)
       IN  /\ k # -1
           /\ ByteIsSet(mIsChildDone, k)
           /\ mChildrenPIDs' = SetStatus(mChildrenPIDs, k, "DONE")
           /\ WfoReturn(mChildrenPIDs[k].pid, FALSE)
    /\ UNCHANGED <<queueVars, callVars, loopVars, sigVars, arrayVars, wfoCaller, procVars>>

\* The next RUNNING child's byte is 0 and it is not time for a crash test
WfoChildRunning ==
    /\ pc = "WaitForOne"
    /\ crashTestTimer # 0
    /\ LET k == NextRunning(mChildrenPIDs, childIndex)
       IN  /\ k # -1
           /\ ~ByteIsSet(mIsChildDone, k)
           /\ childIndex' = k + 1
    /\ haveRunningChildren' = TRUE
    /\ UNCHANGED <<queueVars, pc, callVars, loopVars, sigVars, mChildrenPIDs, arrayVars,
                   crashTestTimer, isCrashed, completedChildPID, wfoCaller, procVars>>

\* The next RUNNING child's byte is 0 and crashTestTimer == 0: probe it next
WfoChildToProbe ==
    /\ pc = "WaitForOne"
    /\ crashTestTimer = 0
    /\ LET k == NextRunning(mChildrenPIDs, childIndex)
       IN  /\ k # -1
           /\ ~ByteIsSet(mIsChildDone, k)
           /\ childIndex' = k
    /\ pc' = "WfoProbe"
    /\ UNCHANGED <<queueVars, callVars, loopVars, sigVars, mChildrenPIDs, arrayVars,
                   crashTestTimer, haveRunningChildren, isCrashed, completedChildPID,
                   wfoCaller, procVars>>

\* (mutant of CrashedFlag) a child found gone is reported as completed
CrashedFlag_False == FALSE

\* What WaitForOne reports for a child whose probe found it gone
CrashedFlag == TRUE

\* "!IsProcessAlive(childPID)": the child is gone, DONE, return it as crashed
WfoProbeCrashed ==
    /\ pc = "WfoProbe"
    /\ ~IsProcessAlive(mChildrenPIDs[childIndex].pid)
    /\ mChildrenPIDs' = SetStatus(mChildrenPIDs, childIndex, "DONE")
    /\ WfoReturn(mChildrenPIDs[childIndex].pid, CrashedFlag)
    /\ UNCHANGED <<queueVars, callVars, loopVars, sigVars, arrayVars, wfoCaller, procVars>>

\* The probed child is alive: it is still running
WfoProbeAlive ==
    /\ pc = "WfoProbe"
    /\ IsProcessAlive(mChildrenPIDs[childIndex].pid)
    /\ haveRunningChildren' = TRUE
    /\ childIndex' = childIndex + 1
    /\ pc' = "WaitForOne"
    /\ UNCHANGED <<queueVars, callVars, loopVars, sigVars, mChildrenPIDs, arrayVars,
                   crashTestTimer, isCrashed, completedChildPID, wfoCaller, procVars>>

\* The pass found no RUNNING child: return 0
WfoAllDone ==
    /\ pc = "WaitForOne"
    /\ NextRunning(mChildrenPIDs, childIndex) = -1
    /\ ~haveRunningChildren
    /\ WfoReturn(0, FALSE)
    /\ UNCHANGED <<queueVars, callVars, loopVars, sigVars, mChildrenPIDs, arrayVars, wfoCaller,
                   procVars>>

\* (mutant of NextTimer) the timer is not counted down
NextTimer_Stuck(t) == t

\* "if(crashTestTimer == 0) crashTestTimer = CRASH_TEST_INTERVAL;" and, after
\* the sleep, "crashTestTimer--"
NextTimer(t) == (IF t = 0 THEN CRASH_TEST_INTERVAL ELSE t) - 1

\* The pass is over with children still running: sleep, count the timer down
WfoNextPass ==
    /\ pc = "WaitForOne"
    /\ passDone' = DoneAtStart(mChildrenPIDs, mIsChildDone)
    /\ NextRunning(mChildrenPIDs, childIndex) = -1
    /\ haveRunningChildren
    /\ crashTestTimer' = NextTimer(crashTestTimer)
    /\ childIndex' = 0
    /\ haveRunningChildren' = FALSE
    /\ UNCHANGED <<queueVars, pc, runVars, loopVars, sigVars, mChildrenPIDs, arrayVars,
                   isCrashed, completedChildPID, wfoCaller, procVars>>

\* ------------------------------------------------- supervisor: WaitForAll

\* WaitForOne returned a live result and no crash: call it again
WaitForAllAgain ==
    /\ pc = "WaitForAllCheck"
    /\ passDone' = DoneAtStart(mChildrenPIDs, mIsChildDone)
    /\ completedChildPID # 0
    /\ ~isCrashed
    /\ crashTestTimer' = CRASH_TEST_INTERVAL
    /\ completedChildPID' = 0
    /\ pc' = "WaitForOne"
    /\ UNCHANGED <<queueVars, runVars, loopVars, sigVars, mChildrenPIDs, arrayVars, childIndex,
                   haveRunningChildren, isCrashed, wfoCaller, procVars>>

\* "return !isCrashed"
WaitForAllResult(crashed) == ~crashed

\* (mutant of ChildrenDone) CHILDREN_DONE is emitted after a crash too
ChildrenDone_Always(seq, crashed) == OnNotify(seq, "CHILDREN_DONE")

\* WaitForAll: "if(!isCrashed) OnNotify(NOTIFY_TYPE::CHILDREN_DONE)"
ChildrenDone(seq, crashed) ==
    IF crashed THEN seq ELSE OnNotify(seq, "CHILDREN_DONE")

\* WaitForAll returns to Fork (its locals are gone), which calls KillAll
WaitForAllReturn ==
    /\ pc = "WaitForAllCheck"
    /\ passDone' = {}
    /\ mWaitForAll
    /\ completedChildPID = 0 \/ isCrashed
    /\ notified' = ChildrenDone(notified, isCrashed)
    /\ result' = WaitForAllResult(isCrashed)
    /\ isCrashed' = FALSE
    /\ completedChildPID' = 0
    /\ pc' = "KillAll"
    /\ UNCHANGED <<queueVars, forkVars, i, childCount, sigVars, mChildrenPIDs, arrayVars,
                   childIndex, crashTestTimer, haveRunningChildren, wfoCaller,
                   procVars>>

\* ---------------------------------------------------- supervisor: KillAll

\* First loop: the child is alive, send it SIGKILL
KillSignal ==
    /\ pc = "KillAll"
    /\ LET k == NextNotStopped(mChildrenPIDs, childIndex)
       IN  /\ k # -1
           /\ IsProcessAlive(mChildrenPIDs[k].pid)
           /\ sigkill' = [sigkill EXCEPT ![k] = TRUE]
           /\ childIndex' = k + 1
    /\ haveRunningChildren' = TRUE
    /\ UNCHANGED <<queueVars, pc, callVars, loopVars, sigVars, mChildrenPIDs, arrayVars,
                   crashTestTimer, isCrashed, completedChildPID, wfoCaller, proc,
                   calledExit>>

\* First loop: the child is gone, NOT_RUNNING
KillGone ==
    /\ pc = "KillAll"
    /\ LET k == NextNotStopped(mChildrenPIDs, childIndex)
       IN  /\ k # -1
           /\ ~IsProcessAlive(mChildrenPIDs[k].pid)
           /\ mChildrenPIDs' = SetStatus(mChildrenPIDs, k, "NOT_RUNNING")
           /\ childIndex' = k + 1
    /\ UNCHANGED <<queueVars, pc, callVars, loopVars, sigVars, arrayVars, crashTestTimer,
                   haveRunningChildren, isCrashed, completedChildPID, wfoCaller,
                   procVars>>

\* First loop over (or no records at all), nothing was alive: KillAll returns
KillNone ==
    /\ pc = "KillAll"
    /\ NextNotStopped(mChildrenPIDs, childIndex) = -1
    /\ ~haveRunningChildren
    /\ childIndex' = 0
    /\ pc' = "PostFork"
    /\ UNCHANGED <<queueVars, callVars, loopVars, sigVars, mChildrenPIDs, arrayVars,
                   crashTestTimer, haveRunningChildren, isCrashed, completedChildPID,
                   wfoCaller, procVars>>

\* First loop over, some child was killed: wait until all are gone
KillSent ==
    /\ pc = "KillAll"
    /\ NextNotStopped(mChildrenPIDs, childIndex) = -1
    /\ haveRunningChildren
    /\ childIndex' = 0
    /\ haveRunningChildren' = FALSE
    /\ pc' = "KillWait"
    /\ UNCHANGED <<queueVars, callVars, loopVars, sigVars, mChildrenPIDs, arrayVars,
                   crashTestTimer, isCrashed, completedChildPID, wfoCaller, procVars>>

\* Wait loop: the child is still alive
KillWaitAlive ==
    /\ pc = "KillWait"
    /\ LET k == NextNotStopped(mChildrenPIDs, childIndex)
       IN  /\ k # -1
           /\ IsProcessAlive(mChildrenPIDs[k].pid)
           /\ childIndex' = k + 1
    /\ haveRunningChildren' = TRUE
    /\ UNCHANGED <<queueVars, pc, callVars, loopVars, sigVars, mChildrenPIDs, arrayVars,
                   crashTestTimer, isCrashed, completedChildPID, wfoCaller, procVars>>

\* Wait loop: the child is gone, NOT_RUNNING
KillWaitGone ==
    /\ pc = "KillWait"
    /\ LET k == NextNotStopped(mChildrenPIDs, childIndex)
       IN  /\ k # -1
           /\ ~IsProcessAlive(mChildrenPIDs[k].pid)
           /\ mChildrenPIDs' = SetStatus(mChildrenPIDs, k, "NOT_RUNNING")
           /\ childIndex' = k + 1
    /\ UNCHANGED <<queueVars, pc, callVars, loopVars, sigVars, arrayVars, crashTestTimer,
                   haveRunningChildren, isCrashed, completedChildPID, wfoCaller,
                   procVars>>

\* (mutant of KillWaitOver) KillAll does not wait for the killed children
KillWaitOver_NoWait(have) == TRUE

\* "if(!haveRunningChildren) break": whether the wait loop may stop
KillWaitOver(have) == ~have

\* A wait pass is over and no child was alive: KillAll returns
KillWaitDone ==
    /\ pc = "KillWait"
    /\ NextNotStopped(mChildrenPIDs, childIndex) = -1
    /\ KillWaitOver(haveRunningChildren)
    /\ childIndex' = 0
    /\ haveRunningChildren' = FALSE
    /\ pc' = "PostFork"
    /\ UNCHANGED <<queueVars, callVars, loopVars, sigVars, mChildrenPIDs, arrayVars,
                   crashTestTimer, isCrashed, completedChildPID, wfoCaller, procVars>>

\* A wait pass is over and some child was alive: sleep, scan again
KillWaitAgain ==
    /\ pc = "KillWait"
    /\ NextNotStopped(mChildrenPIDs, childIndex) = -1
    /\ ~KillWaitOver(haveRunningChildren)
    /\ childIndex' = 0
    /\ haveRunningChildren' = FALSE
    /\ UNCHANGED <<queueVars, pc, callVars, loopVars, sigVars, mChildrenPIDs, arrayVars,
                   crashTestTimer, isCrashed, completedChildPID, wfoCaller, procVars>>

\* PostFork, then Fork returns result to Create's caller (its locals are gone)
PostFork ==
    /\ pc = "PostFork"
    /\ sigchld' = PostForkDisposition(mOld_SIGCHLD_handler, sigchld)
    /\ mIsChildDone' = << >>
    /\ mIsChildDoneSize' = 0
    /\ i' = 0
    /\ childCount' = 0
    /\ wfoCaller' = "Fork"
    /\ pc' = "ret"
    /\ UNCHANGED <<queueVars, callVars, result, mOld_SIGCHLD_handler, mChildrenPIDs, childIndex,
                   crashTestTimer, haveRunningChildren, isCrashed, completedChildPID,
                   procVars>>

\* ----------------------------------------------------------------- workers

\* (mutant of WriteDone) the worker writes slot 0, not its own
WriteDone_SlotZero(arr, w) == IF 0 \in DOMAIN arr THEN [arr EXCEPT ![0] = 1] ELSE arr

\* The completion array after worker w's "mIsChildDone[mChildIndex] = 1"
WriteDone(arr, w) == IF w \in DOMAIN arr THEN [arr EXCEPT ![w] = 1] ELSE arr

\* Exit(true, keepIdle): the worker sets its completion byte
ExitTrue(w, keepIdle) ==
    /\ proc[w] = "run"
    /\ mIsChildDone' = WriteDone(mIsChildDone, w)
    /\ proc' = [proc EXCEPT ![w] = IF keepIdle THEN "idle" ELSE "wrote"]
    /\ calledExit' = [calledExit EXCEPT ![w] = "true"]
    /\ UNCHANGED <<queueVars, pc, callVars, loopVars, sigVars, mChildrenPIDs, mIsChildDoneSize,
                   waitVars, sigkill>>

\* Exit(true): _exit(0) after the byte was set
ExitProcess(w) ==
    /\ proc[w] = "wrote"
    /\ proc' = [proc EXCEPT ![w] = "dead"]
    /\ sigkill' = [sigkill EXCEPT ![w] = FALSE]
    /\ UNCHANGED <<queueVars, pc, callVars, loopVars, sigVars, mChildrenPIDs, arrayVars,
                   waitVars, calledExit>>

\* Exit(false): _exit(1), the byte stays 0.  A worker whose own code dies
\* before it calls Exit makes the same step.
ExitFalse(w) ==
    /\ proc[w] = "run"
    /\ proc' = [proc EXCEPT ![w] = "dead"]
    /\ calledExit' = [calledExit EXCEPT ![w] = "false"]
    /\ sigkill' = [sigkill EXCEPT ![w] = FALSE]
    /\ UNCHANGED <<queueVars, pc, callVars, loopVars, sigVars, mChildrenPIDs, arrayVars,
                   waitVars>>

\* The SIGKILL sent by KillAll is delivered
Killed(w) ==
    /\ sigkill[w]
    /\ Alive(w)
    /\ proc' = [proc EXCEPT ![w] = "dead"]
    /\ sigkill' = [sigkill EXCEPT ![w] = FALSE]
    /\ UNCHANGED <<queueVars, pc, callVars, loopVars, sigVars, mChildrenPIDs, arrayVars,
                   waitVars, calledExit>>

\* -------------------------------------------------------------------- Next
SupervisorRun ==
    \/ PreForkOk \/ PreForkFail
    \/ ForkLoopExit \/ ForkWait \/ ForkNoWait \/ ForkWaitCrashed \/ ForkWaitDone
    \/ ForkChild \/ ForkFail \/ ForkEndFailed \/ ForkEndWaitForAll
    \/ WfoChildDone \/ WfoChildRunning \/ WfoChildToProbe \/ WfoProbeCrashed
    \/ WfoProbeAlive \/ WfoAllDone \/ WfoNextPass
    \/ WaitForAllAgain \/ WaitForAllReturn
    \/ KillSignal \/ KillGone \/ KillNone \/ KillSent
    \/ KillWaitAlive \/ KillWaitGone \/ KillWaitDone \/ KillWaitAgain
    \/ PostFork

Supervisor ==
    \/ \E n \in 1 .. MaxProcs, m \in 0 .. MaxProcs : Create(n, m)
    \/ SupervisorRun

Worker(w) ==
    \/ \E keepIdle \in BOOLEAN : ExitTrue(w, keepIdle)
    \/ ExitProcess(w) \/ ExitFalse(w) \/ Killed(w)

Next == Supervisor \/ \E w \in Slots : Worker(w)

Spec == Init /\ [][Next]_vars

\* ---------------------------------------------- a ProcessPool used again
NextReuse ==
    \/ \E n \in 1 .. MaxProcs, m \in 0 .. MaxProcs :
            CreateFirst(n, m) \/ CreateAgain(n, m)
    \/ SupervisorRun
    \/ \E w \in Slots : Worker(w)

SpecReuse == Init /\ [][NextReuse]_vars

\* ------------------------------------------ the supervisor process dies

\* The supervisor process dies (is killed, crashes) during a run
ParentDies ==
    /\ parentAlive
    /\ pc \notin {"idle", "ret"}
    /\ parentAlive' = FALSE
    /\ UNCHANGED <<pc, mWaitForAll, totalChildren, maxChildCount, priorSig, reused,
                   passDone, notified,
                   loopVars, sigVars, mChildrenPIDs, arrayVars, waitVars, procVars, queueVars>>

\* (mutant of ParentGone) the idle loop ends whether or not the parent lives
ParentGone_Always == TRUE

\* "while(IsProcessAlive(mParentPID))" finds the parent gone
ParentGone == ~parentAlive

\* Exit(true, true): the idle loop ends because the parent is gone, _exit(0)
IdleExit(w) ==
    /\ proc[w] = "idle"
    /\ ParentGone
    /\ proc' = [proc EXCEPT ![w] = "dead"]
    /\ sigkill' = [sigkill EXCEPT ![w] = FALSE]
    /\ UNCHANGED <<pc, callVars, loopVars, sigVars, mChildrenPIDs, arrayVars,
                   waitVars, calledExit, queueVars>>

\* A dead supervisor takes no step
NextOrphan ==
    \/ parentAlive /\ Supervisor
    \/ ParentDies
    \/ \E w \in Slots : Worker(w) \/ IdleExit(w)

SpecOrphan == Init /\ [][NextOrphan]_vars

\* The supervisor goes on inside Create until it returns, and every worker
\* goes on: its code ends in Exit or dies, _exit follows the byte, a SIGKILL
\* sent to it is delivered.  A worker idling in Exit(true, true) has no step
\* of its own.
Fairness ==
    /\ WF_vars(Supervisor /\ pc \notin {"idle", "ret"})
    /\ \A w \in Slots : WF_vars(Worker(w))

SpecFair == Spec /\ Fairness

\* ============================================================ ProcessQueue

\* mRequestQueueSize, as the constructor computes it
RequestQueueSize(maxCount) ==
    IF maxCount # 0 THEN NodeSize * maxCount + HeaderSize ELSE 0

\* QueueLock's constructor starts with this budget
LockBudget == LockWaitMs * 1000

\* (mutant of Delays) random() returns multiples of four only
Delays_Zero == {0}

\* "(random() & 0x3) * 1000"
Delays == {r * 1000 : r \in 0 .. 3}

\* "mHasLock = (waitUseconds > 0)" after the loop gave up
TimedOut(waitLeft) == ~(waitLeft > 0)

\* (mutant of WasFree) the lock is taken whatever its old value was
WasFree_Always(old) == TRUE

\* "__sync_fetch_and_or(&mLock, 0xff) == 0": whether the lock was free
WasFree(old) == old = 0

\* A process spinning on the lock finds it taken and sleeps for delay
SpinOn(p, delay) ==
    /\ ~WasFree(lock)
    /\ lock' = LOCKED
    /\ ~TimedOut(waitUseconds[p] - delay)
    /\ waitUseconds' = [waitUseconds EXCEPT ![p] = waitUseconds[p] - delay]

\* (mutant of Destructor) the lock is cleared whether or not it was obtained
Destructor_Always(mHasLock, mLock) == IF TRUE THEN 0 ELSE mLock

\* "~QueueLock() { if(mHasLock) mLock = 0; }": the lock byte afterwards
Destructor(mHasLock, mLock) == IF mHasLock THEN 0 ELSE mLock

\* A process spinning on the lock finds it taken and its budget ends: the
\* caller returns at once, which runs the destructor
GiveUp(p, delay) ==
    /\ ~WasFree(lock)
    /\ lock' = Destructor(~TimedOut(waitUseconds[p] - delay), LOCKED)
    /\ TimedOut(waitUseconds[p] - delay)
    /\ waitUseconds' = [waitUseconds EXCEPT ![p] = 0]

\* A process spinning on the lock finds it free and takes it
Acquire(p) ==
    /\ WasFree(lock)
    /\ lock' = LOCKED
    /\ waitUseconds' = [waitUseconds EXCEPT ![p] = 0]

\* ---------------------------------------------------- supervisor: Create

\* ProcessQueue::Create: CreateRequestQueue succeeds, ProcessPool::Create is called
QueueCreate(procCount) ==
    /\ pc = "idle"
    /\ ~mWaitForAll
    /\ RequestQueueSize(maxRequestCount) # 0
    /\ mRequestQueue' = TRUE
    /\ lock' = 0
    /\ head' = NULL
    /\ tail' = NULL
    /\ free' = NULL
    /\ stop' = FALSE
    /\ fillPtr' = HeaderSize
    /\ ForkCall(procCount, procCount)
    /\ UNCHANGED <<reused, maxRequestCount, nodeNext, nodeArgs, waitUseconds, node, args,
                   histVars>>

\* ProcessQueue::Create: mmap fails in CreateRequestQueue, Create returns false
QueueCreateNoMem ==
    /\ pc = "idle"
    /\ ~mWaitForAll
    /\ pc' = "QFailed"
    /\ UNCHANGED <<callVars, loopVars, sigVars, mChildrenPIDs, arrayVars, waitVars,
                   procVars, queueVars>>

\* ProcessPool::Create returned false: DeleteRequestQueue, Create returns false
QueueCreateFailed ==
    /\ pc = "ret"
    /\ ~mWaitForAll
    /\ ~result
    /\ mRequestQueue' = FALSE
    /\ pc' = "QFailed"
    /\ UNCHANGED <<callVars, loopVars, sigVars, mChildrenPIDs, arrayVars, waitVars,
                   procVars, maxRequestCount, shmVars, waitUseconds, node, args,
                   histVars>>

\* Fork: all children forked and mWaitForAll is false: Fork returns true, and
\* so does ProcessQueue::Create in the parent
ForkEndReturn ==
    /\ pc = "ForkEnd"
    /\ result
    /\ ~mWaitForAll
    /\ notified' = OnNotify(notified, "POST_FORK")
    /\ i' = 0
    /\ childCount' = 0
    /\ pc' = "QIdle"
    /\ UNCHANGED <<forkVars, passDone, result, sigVars, mChildrenPIDs, arrayVars, waitVars,
                   procVars, queueVars>>

\* ------------------------------------- supervisor: HasCrashedChildren

\* Post or WaitForCompletion goes on to its QueueLock
AfterScan ==
    /\ pc' = IF pc = "PostScan" THEN "PostLock" ELSE "WfcLock"
    /\ waitUseconds' = [waitUseconds EXCEPT ![PARENT] = LockBudget]

\* HasCrashedChildren: less than CRASH_TEST_INTERVAL seconds since the last scan
CrashScanSkip ==
    /\ pc \in {"PostScan", "WfcScan"}
    /\ childIndex = 0
    /\ AfterScan
    /\ UNCHANGED <<callVars, loopVars, sigVars, mChildrenPIDs, arrayVars, waitVars,
                   procVars, maxRequestCount, mRequestQueue, shmVars, node, args,
                   histVars>>

\* HasCrashedChildren (the interval has passed, the clock decides): the next
\* RUNNING child is alive, the scan goes on
CrashScanAlive ==
    /\ pc \in {"PostScan", "WfcScan"}
    /\ LET k == NextRunning(mChildrenPIDs, childIndex)
       IN  /\ k # -1
           /\ IsProcessAlive(mChildrenPIDs[k].pid)
           /\ childIndex' = k + 1
    /\ UNCHANGED <<pc, callVars, loopVars, sigVars, mChildrenPIDs, arrayVars,
                   crashTestTimer, haveRunningChildren, isCrashed, completedChildPID,
                   wfoCaller, procVars, queueVars>>

\* (mutant of ScanMark) the scan marks every RUNNING child that is gone
ScanMark_All(v, k) ==
    [j \in DOMAIN v |->
        IF v[j].status = "RUNNING" /\ ~IsProcessAlive(v[j].pid)
        THEN [v[j] EXCEPT !.status = "DONE"] ELSE v[j]]

\* "mChildrenPIDs[childIndex].status = CHILD_STATUS::DONE; break;"
ScanMark(v, k) == SetStatus(v, k, "DONE")

\* HasCrashedChildren: the next RUNNING child is gone: DONE, the scan ends
CrashScanCrashed ==
    /\ pc \in {"PostScan", "WfcScan"}
    /\ LET k == NextRunning(mChildrenPIDs, childIndex)
       IN  /\ k # -1
           /\ ~IsProcessAlive(mChildrenPIDs[k].pid)
           /\ mChildrenPIDs' = ScanMark(mChildrenPIDs, k)
    /\ childIndex' = 0
    /\ AfterScan
    /\ UNCHANGED <<callVars, loopVars, sigVars, arrayVars, crashTestTimer,
                   haveRunningChildren, isCrashed, completedChildPID, wfoCaller,
                   procVars, maxRequestCount, mRequestQueue, shmVars, node, args,
                   histVars>>

\* HasCrashedChildren: no RUNNING child is left to look at, the scan ends
CrashScanEnd ==
    /\ pc \in {"PostScan", "WfcScan"}
    /\ NextRunning(mChildrenPIDs, childIndex) = -1
    /\ childIndex' = 0
    /\ AfterScan
    /\ UNCHANGED <<callVars, loopVars, sigVars, mChildrenPIDs, arrayVars,
                   crashTestTimer, haveRunningChildren, isCrashed, completedChildPID,
                   wfoCaller, procVars, maxRequestCount, mRequestQueue, shmVars,
                   node, args, histVars>>

\* ------------------------------------------- supervisor: QueueLock
ParentLockAcquire ==
    /\ pc \in {"PostLock", "WfcLock"}
    /\ Acquire(PARENT)
    /\ pc' = IF pc = "PostLock" THEN "PostCS" ELSE "WfcCS"
    /\ UNCHANGED <<callVars, loopVars, sigVars, mChildrenPIDs, arrayVars, waitVars,
                   procVars, maxRequestCount, mRequestQueue, fillPtr, head, tail,
                   free, stop, nodeNext, nodeArgs, node, args, histVars>>

ParentLockSpin(delay) ==
    /\ pc \in {"PostLock", "WfcLock"}
    /\ SpinOn(PARENT, delay)
    /\ UNCHANGED <<pc, callVars, loopVars, sigVars, mChildrenPIDs, arrayVars,
                   waitVars, procVars, maxRequestCount, mRequestQueue, fillPtr, head,
                   tail, free, stop, nodeNext, nodeArgs, node, args, histVars>>

\* The lock was not obtained: Post / WaitForCompletion returns false
ParentLockTimeout(delay) ==
    /\ pc \in {"PostLock", "WfcLock"}
    /\ GiveUp(PARENT, delay)
    /\ args' = 0
    /\ returned' = IF pc = "PostLock" THEN "PostNoLock" ELSE "WfcNoLock"
    /\ pc' = "QIdle"
    /\ UNCHANGED <<callVars, loopVars, sigVars, mChildrenPIDs, arrayVars, waitVars,
                   procVars, maxRequestCount, mRequestQueue, fillPtr, head, tail,
                   free, stop, nodeNext, nodeArgs, node, posted, detached,
                   delivered>>

\* ------------------------------------------------------ supervisor: Post

\* Post(args) is called.  The caller numbers its requests as TestProcessQueue
\* does, and calls Post again with a number for which Post returned false.
PostCall ==
    /\ pc = "QIdle"
    /\ Len(posted) < MaxPosts
    /\ args' = Len(posted) + 1
    /\ returned' = "none"
    /\ pc' = "PostScan"
    /\ UNCHANGED <<callVars, loopVars, sigVars, mChildrenPIDs, arrayVars, waitVars,
                   procVars, maxRequestCount, mRequestQueue, shmVars, waitUseconds,
                   node, posted, detached, delivered>>

\* (mutant of OutOfMemory) Post does not look at the room left
OutOfMemory_Never == FALSE

\* "availableSize < sizeof(Node)"
OutOfMemory == RequestQueueSize(maxRequestCount) - fillPtr < NodeSize

\* Post, holding the lock: no free node and no room: return false, unlock
PostFull ==
    /\ pc = "PostCS"
    /\ free = NULL
    /\ OutOfMemory
    /\ lock' = 0
    /\ args' = 0
    /\ returned' = "PostFull"
    /\ pc' = "QIdle"
    /\ UNCHANGED <<callVars, loopVars, sigVars, mChildrenPIDs, arrayVars, waitVars,
                   procVars, maxRequestCount, mRequestQueue, fillPtr, head, tail,
                   free, stop, nodeNext, nodeArgs, waitUseconds, node, posted,
                   detached, delivered>>

\* The node Post uses: the first of the free chain, else a new one at fillPtr
PostNode == IF free # NULL THEN free ELSE fillPtr

\* (mutant of Link) "node->next = nullptr" is left out
Link_StaleNext(next, n) == IF tail # NULL THEN [next EXCEPT ![tail] = n] ELSE next

\* Post's linking: "tail->next = node" unless the queue is empty, then
\* "node->next = nullptr"
Link(next, n) ==
    LET linked == IF tail # NULL THEN [next EXCEPT ![tail] = n] ELSE next
    IN  [linked EXCEPT ![n] = NULL]

\* Post, holding the lock: take a node, copy args, append at the tail, unlock
PostAppend ==
    /\ pc = "PostCS"
    /\ free # NULL \/ ~OutOfMemory
    /\ free' = IF free # NULL THEN nodeNext[free] ELSE free
    /\ fillPtr' = IF free # NULL THEN fillPtr ELSE fillPtr + NodeSize
    /\ nodeArgs' = [nodeArgs EXCEPT ![PostNode] = args]
    /\ head' = IF tail = NULL THEN PostNode ELSE head
    /\ nodeNext' = Link(nodeNext, PostNode)
    /\ tail' = PostNode
    /\ lock' = 0
    /\ posted' = Append(posted, args)
    /\ args' = 0
    /\ returned' = "PostTrue"
    /\ pc' = "QIdle"
    /\ UNCHANGED <<callVars, loopVars, sigVars, mChildrenPIDs, arrayVars, waitVars,
                   procVars, maxRequestCount, mRequestQueue, stop, waitUseconds,
                   node, detached, delivered>>

\* ----------------------------------------- supervisor: WaitForCompletion
WaitForCompletionCall ==
    /\ pc = "QIdle"
    /\ returned' = "none"
    /\ pc' = "WfcScan"
    /\ UNCHANGED <<callVars, loopVars, sigVars, mChildrenPIDs, arrayVars, waitVars,
                   procVars, maxRequestCount, mRequestQueue, shmVars,
                   waitUseconds, node, args, posted, detached, delivered>>

\* (mutant of NoRequestLeft) WaitForCompletion does not look at head
NoRequestLeft_Always == TRUE

\* "if(!mRequestQueue->head)"
NoRequestLeft == head = NULL

\* Holding the lock: the queue is empty, WaitForCompletion returns true
WaitForCompletionDone ==
    /\ pc = "WfcCS"
    /\ NoRequestLeft
    /\ lock' = 0
    /\ returned' = "WfcTrue"
    /\ pc' = "QIdle"
    /\ UNCHANGED <<callVars, loopVars, sigVars, mChildrenPIDs, arrayVars, waitVars,
                   procVars, maxRequestCount, mRequestQueue, fillPtr, head, tail,
                   free, stop, nodeNext, nodeArgs, waitUseconds, node, args, posted,
                   detached, delivered>>

\* Holding the lock: requests are left; unlock, sleep and look again
WaitForCompletionAgain ==
    /\ pc = "WfcCS"
    /\ ~NoRequestLeft
    /\ lock' = 0
    /\ pc' = "WfcScan"
    /\ UNCHANGED <<callVars, loopVars, sigVars, mChildrenPIDs, arrayVars, waitVars,
                   procVars, maxRequestCount, mRequestQueue, fillPtr, head, tail,
                   free, stop, nodeNext, nodeArgs, waitUseconds, node, args, histVars>>

\* --------------------------------------------------- supervisor: Destroy

\* (mutant of DestroyRuns) Destroy does not look at mRequestQueue
DestroyRuns_Always == TRUE

\* "if(IsParent() && mRequestQueue)", in the supervisor
DestroyRuns == mRequestQueue

\* Destroy: set stop, then WaitForAll
Destroy ==
    /\ pc \in {"QIdle", "QDestroyed"}
    /\ passDone' = DoneAtStart(mChildrenPIDs, mIsChildDone)
    /\ DestroyRuns
    /\ stop' = TRUE
    /\ wfoCaller' = "WaitForAll"
    /\ crashTestTimer' = CRASH_TEST_INTERVAL
    /\ returned' = "none"
    /\ pc' = "WaitForOne"
    /\ UNCHANGED <<runVars, loopVars, sigVars, mChildrenPIDs, arrayVars, childIndex,
                   haveRunningChildren, isCrashed, completedChildPID, procVars,
                   maxRequestCount, mRequestQueue, lock, fillPtr, head, tail, free,
                   nodeNext, nodeArgs, waitUseconds, node, args, posted,
                   detached, delivered>>

\* WaitForAll returns to Destroy, which unmaps the queue
DestroyUnmap ==
    /\ pc = "WaitForAllCheck"
    /\ passDone' = {}
    /\ ~mWaitForAll
    /\ completedChildPID = 0 \/ isCrashed
    /\ notified' = ChildrenDone(notified, isCrashed)
    /\ isCrashed' = FALSE
    /\ completedChildPID' = 0
    /\ mRequestQueue' = FALSE
    /\ pc' = "QDestroyed"
    /\ UNCHANGED <<forkVars, loopVars, sigVars, mChildrenPIDs, arrayVars, childIndex,
                   crashTestTimer, haveRunningChildren, wfoCaller, procVars,
                   maxRequestCount, shmVars, waitUseconds, node, args, histVars>>

\* Destroy called on a destroyed queue, by the caller or by the destructor:
\* nothing to do
DestroyAgain ==
    /\ pc \in {"QIdle", "QDestroyed"}
    /\ ~DestroyRuns
    /\ returned' = "DestroyNoop"
    /\ UNCHANGED <<pc, callVars, loopVars, sigVars, mChildrenPIDs, arrayVars,
                   waitVars, procVars, maxRequestCount, mRequestQueue, shmVars,
                   waitUseconds, node, args, posted, detached, delivered>>

\* ------------------------------------------------------ worker: the loop

\* "while(!mRequestQueue->stop)": stop is set, the child calls Exit(true)
LoopStop(w) ==
    /\ proc[w] = "Loop"
    /\ stop
    /\ proc' = [proc EXCEPT ![w] = "run"]
    /\ UNCHANGED <<pc, callVars, loopVars, sigVars, mChildrenPIDs, arrayVars,
                   waitVars, sigkill, calledExit, queueVars>>

\* stop is clear: GetNextRequest is called and constructs its QueueLock
LoopGet(w) ==
    /\ proc[w] = "Loop"
    /\ ~stop
    /\ proc' = [proc EXCEPT ![w] = "GetLock"]
    /\ waitUseconds' = [waitUseconds EXCEPT ![w] = LockBudget]
    /\ UNCHANGED <<pc, callVars, loopVars, sigVars, mChildrenPIDs, arrayVars,
                   waitVars, sigkill, calledExit, maxRequestCount, mRequestQueue,
                   shmVars, node, args, histVars>>

ChildLockAcquire(w) ==
    /\ proc[w] \in {"GetLock", "FreeLock"}
    /\ Acquire(w)
    /\ proc' = [proc EXCEPT ![w] = IF proc[w] = "GetLock" THEN "GetCS" ELSE "FreeCS"]
    /\ UNCHANGED <<pc, callVars, loopVars, sigVars, mChildrenPIDs, arrayVars,
                   waitVars, sigkill, calledExit, maxRequestCount, mRequestQueue,
                   fillPtr, head, tail, free, stop, nodeNext, nodeArgs, node, args,
                   histVars>>

ChildLockSpin(w, delay) ==
    /\ proc[w] \in {"GetLock", "FreeLock"}
    /\ SpinOn(w, delay)
    /\ UNCHANGED <<pc, callVars, loopVars, sigVars, mChildrenPIDs, arrayVars,
                   waitVars, procVars, maxRequestCount, mRequestQueue, fillPtr, head,
                   tail, free, stop, nodeNext, nodeArgs, node, args, histVars>>

\* The lock was not obtained: GetNextRequest returns nullptr and the child
\* sleeps; FreeRequest returns without putting the node on the free chain
ChildLockTimeout(w, delay) ==
    /\ proc[w] \in {"GetLock", "FreeLock"}
    /\ GiveUp(w, delay)
    /\ node' = [node EXCEPT ![w] = NULL]
    /\ proc' = [proc EXCEPT ![w] = "Loop"]
    /\ UNCHANGED <<pc, callVars, loopVars, sigVars, mChildrenPIDs, arrayVars,
                   waitVars, sigkill, calledExit, maxRequestCount, mRequestQueue,
                   fillPtr, head, tail, free, stop, nodeNext, nodeArgs, args, histVars>>

\* GetNextRequest, holding the lock: the queue is empty; unlock, sleep
GetNone(w) ==
    /\ proc[w] = "GetCS"
    /\ head = NULL
    /\ lock' = 0
    /\ proc' = [proc EXCEPT ![w] = "Loop"]
    /\ UNCHANGED <<pc, callVars, loopVars, sigVars, mChildrenPIDs, arrayVars,
                   waitVars, sigkill, calledExit, maxRequestCount, mRequestQueue,
                   fillPtr, head, tail, free, stop, nodeNext, nodeArgs, waitUseconds,
                   node, args, histVars>>

\* (mutant of Detach) the head node is returned but stays in the queue
Detach_KeepHead == [head |-> head, tail |-> tail]

\* (mutant of Detach) "mRequestQueue->tail = nullptr" is left out
Detach_KeepTail == [head |-> nodeNext[head], tail |-> tail]

\* (mutant of Detach) detaching the head node empties the queue
Detach_DropAll == [head |-> NULL, tail |-> NULL]

\* GetNextRequest's new head and tail after detaching the head node
Detach == [head |-> nodeNext[head],
           tail |-> IF nodeNext[head] = NULL THEN NULL ELSE tail]

\* GetNextRequest, holding the lock: detach the head node, unlock, return it
GetHead(w) ==
    /\ proc[w] = "GetCS"
    /\ head # NULL
    /\ node' = [node EXCEPT ![w] = head]
    /\ head' = Detach.head
    /\ tail' = Detach.tail
    /\ lock' = 0
    /\ detached' = Append(detached, nodeArgs[head])
    /\ proc' = [proc EXCEPT ![w] = "Call"]
    /\ UNCHANGED <<pc, callVars, loopVars, sigVars, mChildrenPIDs, arrayVars,
                   waitVars, sigkill, calledExit, maxRequestCount, mRequestQueue,
                   fillPtr, free, stop, nodeNext, nodeArgs, waitUseconds, args,
                   posted, delivered, returned>>

\* "(*fptr)(*node)" runs and returns; FreeRequest constructs its QueueLock
Call(w) ==
    /\ proc[w] = "Call"
    /\ delivered' = [delivered EXCEPT ![nodeArgs[node[w]]] = @ + 1]
    /\ proc' = [proc EXCEPT ![w] = "FreeLock"]
    /\ waitUseconds' = [waitUseconds EXCEPT ![w] = LockBudget]
    /\ UNCHANGED <<pc, callVars, loopVars, sigVars, mChildrenPIDs, arrayVars,
                   waitVars, sigkill, calledExit, maxRequestCount, mRequestQueue,
                   shmVars, node, args, posted, detached, returned>>

\* FreeRequest, holding the lock: push the node on the free chain, unlock
FreeRequest(w) ==
    /\ proc[w] = "FreeCS"
    /\ nodeNext' = [nodeNext EXCEPT ![node[w]] = free]
    /\ free' = node[w]
    /\ lock' = 0
    /\ node' = [node EXCEPT ![w] = NULL]
    /\ proc' = [proc EXCEPT ![w] = "Loop"]
    /\ UNCHANGED <<pc, callVars, loopVars, sigVars, mChildrenPIDs, arrayVars,
                   waitVars, sigkill, calledExit, maxRequestCount, mRequestQueue,
                   fillPtr, head, tail, stop, nodeArgs, waitUseconds, args, histVars>>

\* A child crashes (in the user function or anywhere else in the loop)
Crash(w) ==
    /\ proc[w] \in {"Loop", "GetLock", "GetCS", "Call", "FreeLock", "FreeCS"}
    /\ proc' = [proc EXCEPT ![w] = "dead"]
    /\ sigkill' = [sigkill EXCEPT ![w] = FALSE]
    /\ waitUseconds' = [waitUseconds EXCEPT ![w] = 0]
    /\ UNCHANGED <<pc, callVars, loopVars, sigVars, mChildrenPIDs, arrayVars,
                   waitVars, calledExit, maxRequestCount, mRequestQueue, shmVars,
                   node, args, histVars>>

\* ------------------------------------------------------------- SpecQueue
SupervisorQueue ==
    \/ \E n \in 1 .. MaxQueueProcs : QueueCreate(n)
    \/ QueueCreateNoMem \/ QueueCreateFailed
    \/ PreForkOk \/ PreForkFail
    \/ ForkLoopExit \/ ForkNoWait \/ ForkChild \/ ForkFail
    \/ ForkEndFailed \/ ForkEndReturn
    \/ KillSignal \/ KillGone \/ KillNone \/ KillSent
    \/ KillWaitAlive \/ KillWaitGone \/ KillWaitDone \/ KillWaitAgain
    \/ PostFork
    \/ CrashScanSkip \/ CrashScanAlive \/ CrashScanCrashed \/ CrashScanEnd
    \/ ParentLockAcquire
    \/ \E delay \in Delays : ParentLockSpin(delay) \/ ParentLockTimeout(delay)
    \/ PostCall \/ PostFull \/ PostAppend
    \/ WaitForCompletionCall \/ WaitForCompletionDone \/ WaitForCompletionAgain
    \/ Destroy \/ DestroyAgain
    \/ WfoChildDone \/ WfoChildRunning \/ WfoChildToProbe \/ WfoProbeCrashed
    \/ WfoProbeAlive \/ WfoAllDone \/ WfoNextPass
    \/ WaitForAllAgain \/ DestroyUnmap

WorkerQueue(w) ==
    \/ LoopStop(w) \/ LoopGet(w)
    \/ ChildLockAcquire(w)
    \/ \E delay \in Delays : ChildLockSpin(w, delay) \/ ChildLockTimeout(w, delay)
    \/ GetNone(w) \/ GetHead(w) \/ Call(w) \/ FreeRequest(w)
    \/ Crash(w)
    \/ ExitTrue(w, FALSE) \/ ExitProcess(w) \/ Killed(w)

NextQueue == SupervisorQueue \/ \E w \in Slots : WorkerQueue(w)

SpecQueue == InitQueue /\ [][NextQueue]_vars

\* The supervisor's QueueLock constructor runs
ParentLockStep ==
    \/ ParentLockAcquire
    \/ \E delay \in Delays : ParentLockSpin(delay) \/ ParentLockTimeout(delay)

\* A child's QueueLock constructor runs
ChildLockStep(w) ==
    \/ ChildLockAcquire(w)
    \/ \E delay \in Delays : ChildLockSpin(w, delay) \/ ChildLockTimeout(w, delay)

\* A process inside QueueLock's constructor is scheduled, and random() does
\* not return a multiple of four for ever
FairnessLock ==
    /\ WF_vars(ParentLockStep)
    /\ \A w \in Slots : WF_vars(ChildLockStep(w))

\* ------------------------------------- a queue that is used, not destroyed

\* A child crashes outside the critical sections while another child is alive
CrashNotLast(w) ==
    /\ proc[w] \notin {"GetCS", "FreeCS"}
    /\ \E v \in Slots \ {w} : Alive(v)
    /\ Crash(w)

\* The supervisor creates the queue (every fork succeeds), posts and waits
SupervisorLive ==
    \/ \E n \in 1 .. MaxQueueProcs : QueueCreate(n)
    \/ PreForkOk \/ ForkLoopExit \/ ForkNoWait \/ ForkChild \/ ForkEndReturn
    \/ CrashScanSkip \/ CrashScanAlive \/ CrashScanCrashed \/ CrashScanEnd
    \/ ParentLockAcquire
    \/ \E delay \in Delays : ParentLockSpin(delay)
    \/ PostCall \/ PostFull \/ PostAppend
    \/ WaitForCompletionCall \/ WaitForCompletionDone \/ WaitForCompletionAgain

\* The steps of a child's loop while stop is clear
WorkerLive(w) ==
    \/ LoopGet(w)
    \/ ChildLockAcquire(w)
    \/ \E delay \in Delays : ChildLockSpin(w, delay)
    \/ GetNone(w) \/ GetHead(w) \/ Call(w) \/ FreeRequest(w)

\* stop is never set, no QueueLock runs out of its budget, no child dies
\* holding the lock, and one child at least stays alive
NextLive == SupervisorLive \/ \E w \in Slots : WorkerLive(w) \/ CrashNotLast(w)

\* The supervisor goes on inside WaitForCompletion and every live child goes
\* on in its loop (the user function returns); a QueueLock that is not
\* allowed to give up obtains a lock that is free again and again
FairnessLive ==
    /\ WF_vars(SupervisorLive /\ pc \in {"WfcScan", "WfcLock", "WfcCS"})
    /\ SF_vars(ParentLockAcquire)
    /\ \A w \in Slots : WF_vars(WorkerLive(w)) /\ SF_vars(ChildLockAcquire(w))

SpecLive == InitQueue /\ [][NextLive]_vars /\ FairnessLive

\* The same use of the queue, where a QueueLock may give up
SupervisorUse ==
    \/ SupervisorLive
    \/ \E delay \in Delays : ParentLockTimeout(delay)

\* and a child may die at any point of its loop
WorkerUse(w) ==
    \/ WorkerLive(w)
    \/ \E delay \in Delays : ChildLockTimeout(w, delay)
    \/ Crash(w)

NextUse == SupervisorUse \/ \E w \in Slots : WorkerUse(w)

SpecLock == InitQueue /\ [][NextUse]_vars /\ FairnessLock

\* ======================================================= claims: the pool
AliveWorkers == {w \in Slots : Alive(w)}

\* Workers that are alive and have not set their completion byte
WorkingWorkers == {w \in Slots : Alive(w) /\ calledExit[w] = "no"}

\* C1: when Create (blocking mode) has returned in the supervisor, on any
\* path, no worker process forked during the call is alive.
C1_NoWorkerAliveAtReturn == pc = "ret" => AliveWorkers = {}

\* C1 witness: Create has returned and a worker that never called Exit is
\* gone, i.e. KillAll killed it.
C1_Witness == pc = "ret" /\ \E w \in Slots : proc[w] = "dead" /\ calledExit[w] = "no"

\* C2: if a forked worker ended without setting its completion byte
\* (Exit(false), or it died), Create returns false and no worker is left alive.
C2_FailureIsReported ==
    (pc = "ret" /\ \E w \in Slots : calledExit[w] = "false")
        => (~result /\ AliveWorkers = {})

\* C2 witness: Create returned after one worker failed while another one,
\* still working, had to be killed.
C2_Witness ==
    /\ pc = "ret"
    /\ \E w, v \in Slots : /\ calledExit[w] = "false"
                           /\ calledExit[v] = "no" /\ proc[v] = "dead"

\* C3 (as claimed): if every worker of the run ended by Exit(true), Create
\* returns true.
C3_AllExitTrueReturnsTrue ==
    (pc = "ret" /\ \A w \in 0 .. (totalChildren - 1) : calledExit[w] = "true")
        => result

C5_NoRunningRecordAtReturn ==
    pc = "ret" => \A k \in DOMAIN mChildrenPIDs :
                      mChildrenPIDs[k].status \in {"DONE", "NOT_RUNNING"}

\* C5 witness: Create returned true with at least two records, each of which
\* was RUNNING (it holds a pid) and went through DONE.
C5_Witness ==
    /\ pc = "ret" /\ result
    /\ Size(mChildrenPIDs) >= 2
    /\ \A k \in DOMAIN mChildrenPIDs : mChildrenPIDs[k].pid # 0

\* C6 (as claimed): when Create has returned, SIGCHLD has the disposition it
\* had when Create was called.
C6_SigchldRestored == pc = "ret" => sigchld = priorSig

\* C7: a step changes the mapped completion array only when a worker that
\* has not called Exit calls Exit(true), and then sets that worker's slot,
\* and only it, from 0 to 1; the supervisor only maps a zeroed array
\* (PreFork) or unmaps it.
C7_SingleWriter ==
    [][ \/ mIsChildDone' = mIsChildDone
        \/ /\ pc = "PreFork"
           /\ \A k \in DOMAIN mIsChildDone' : mIsChildDone'[k] = 0
        \/ mIsChildDone' = << >>
        \/ /\ pc' = pc
           /\ \E w \in DOMAIN mIsChildDone :
                /\ calledExit[w] = "no" /\ calledExit'[w] = "true"
                /\ mIsChildDone[w] = 0
                /\ mIsChildDone' = [mIsChildDone EXCEPT ![w] = 1] ]_vars

\* C7 witness: one worker has set its byte, another called Exit(false) and
\* its byte is 0.
C7_Witness ==
    \E w, v \in DOMAIN mIsChildDone :
        /\ calledExit[w] = "true" /\ mIsChildDone[w] = 1
        /\ calledExit[v] = "false" /\ mIsChildDone[v] = 0

\* ====================================================== claims: the queue

\* The processes inside a queue critical section, i.e. between a QueueLock
\* that obtained the lock and its destructor
InCS ==
    (IF pc \in {"PostCS", "WfcCS"} THEN {PARENT} ELSE {})
        \cup {w \in Slots : proc[w] \in {"GetCS", "FreeCS"}}

\* The processes spinning in QueueLock's constructor after at least one sleep
Waited == {p \in Procs : waitUseconds[p] > 0 /\ waitUseconds[p] < LockBudget}

\* The values a sequence holds
Range(q) == {q[k] : k \in 1 .. Len(q)}

\* C8: at every instant at most one process, supervisor or worker, is inside
\* a queue critical section (Post, GetNextRequest, FreeRequest, the head check
\* of WaitForCompletion), it holds the lock then, and no node is held by two
\* workers, i.e. GetNextRequest has returned no node to two of them.
C8_MutualExclusion ==
    /\ Cardinality(InCS) <= 1
    /\ InCS # {} => lock = LOCKED
    /\ \A w, v \in Slots : w # v /\ node[w] # NULL => node[w] # node[v]

\* One process is inside the critical section while another one has already
\* slept on the taken lock, and two workers hold a node each.
C8_Witness ==
    /\ InCS # {}
    /\ Waited \ InCS # {}
    /\ \E w, v \in Slots : w # v /\ node[w] # NULL /\ node[v] # NULL

\* C9: the items detached by GetNextRequest, over all workers and in the
\* order of detaching, are the items of the successful Posts in the order of
\* posting: detached is a prefix of posted, also when nodes are recycled.
C9_Fifo ==
    /\ Len(detached) <= Len(posted)
    /\ detached = SubSeq(posted, 1, Len(detached))

\* Three items went through an arena of two nodes, so one node was recycled
\* through the free chain, and two workers hold a detached node each.
C9_Witness ==
    /\ Len(detached) = 3
    /\ fillPtr = HeaderSize + 2 * NodeSize
    /\ \E w, v \in Slots : w # v /\ node[w] # NULL /\ node[v] # NULL

\* The nodes some worker has dequeued and not yet given back
Held == {node[w] : w \in {v \in Slots : Alive(v) /\ node[v] # NULL}}

\* C10: every value passed to the user function was posted by a successful
\* Post and was detached, no value is passed to the user function more than
\* once over all workers, and no step changes the payload of a node that a
\* worker holds (a later Post never overwrites it).
C10_AtMostOnceIntact ==
    /\ [](\A v \in DOMAIN delivered :
            /\ delivered[v] <= 1
            /\ delivered[v] = 1 => v \in Range(posted) /\ v \in Range(detached))
    /\ [][\A a \in Held : nodeArgs'[a] = nodeArgs[a]]_vars

\* All three posted values have been passed to the user function, through an
\* arena of two nodes.
C10_Witness ==
    /\ \A v \in Values : delivered[v] = 1
    /\ Len(posted) = 3
    /\ fillPtr = HeaderSize + 2 * NodeSize

\* The nodes met by following next from a, at most n of them
RECURSIVE Chain(_, _)
Chain(a, n) ==
    IF a = NULL \/ n = 0 \/ a \notin NodeAddrs THEN << >>
    ELSE <<a>> \o Chain(nodeNext[a], n - 1)

\* The active list, from head, and the free chain, from free
ActiveList == Chain(head, Cardinality(NodeAddrs) + 1)
FreeList == Chain(free, Cardinality(NodeAddrs) + 1)

\* No process is between obtaining the lock and releasing it
NoneInCS == InCS = {} /\ lock = 0

\* C11: whenever no process is inside a queue critical section, the number of
\* successful Posts equals the number of items detached by GetNextRequest plus
\* the number of items in the active list.
C11_Conservation ==
    NoneInCS => Len(posted) = Len(detached) + Len(ActiveList)

\* Outside the critical section, three items were posted, one of them was
\* detached and two are queued, one of these on a recycled node.
C11_Witness ==
    /\ NoneInCS
    /\ Len(posted) = 3
    /\ Len(detached) = 1
    /\ Len(ActiveList) = 2

\* C12: when WaitForCompletion has returned true, the user function has
\* finished for every request posted before the call.
C12_AllCompleted ==
    returned = "WfcTrue" => \A v \in Range(posted) : delivered[v] = 1

\* What WaitForCompletion's true does tell: every request posted before the
\* call has been detached by a worker and the active list was empty.
WfcTrueMeansDetached ==
    returned = "WfcTrue" => Len(detached) = Len(posted) /\ ActiveList = << >>

\* WaitForCompletion has returned true for three posted requests while a
\* worker is still in the user function with one of them.
WfcTrueWhileInCall ==
    /\ returned = "WfcTrue"
    /\ Len(posted) = 3
    /\ \E w \in Slots : proc[w] = "Call"

\* The supervisor's step out of Post's critical section
PostLeavesCS == pc = "PostCS" /\ pc' # "PostCS"

\* C13: fillPtr never passes the end of the mapping and never decreases; a
\* Post made with an empty free chain and no room for one more node returns
\* false, releases the lock and leaves head, tail, free, fillPtr and the nodes
\* as they were; a Post that finds a freed node succeeds.
C13_QueueFull ==
    /\ [](fillPtr <= RequestQueueSize(maxRequestCount))
    /\ [][/\ fillPtr' >= fillPtr
          /\ PostLeavesCS /\ free = NULL /\ OutOfMemory =>
                /\ returned' = "PostFull"
                /\ lock' = 0
                /\ UNCHANGED <<head, tail, free, fillPtr, nodeNext, nodeArgs>>
          /\ PostLeavesCS /\ free # NULL =>
                /\ returned' = "PostTrue"
                /\ fillPtr' = fillPtr]_vars

\* Post has returned false for lack of room: the arena is used up, two
\* requests are queued, no node is free and the lock is released.
C13_Witness ==
    /\ returned = "PostFull"
    /\ fillPtr = RequestQueueSize(maxRequestCount)
    /\ Len(ActiveList) = 2
    /\ free = NULL
    /\ lock = 0

\* C14: whenever no process is inside a queue critical section, head is NULL
\* exactly when tail is NULL, and a non-NULL tail has a NULL next pointer,
\* also when the tail node came from the free chain.
C14_HeadTail ==
    NoneInCS =>
        /\ head = NULL <=> tail = NULL
        /\ tail # NULL => nodeNext[tail] = NULL

\* Outside the critical section the tail is the third request, on a node that
\* came from the free chain (both nodes of the arena were carved before),
\* behind another queued request.
C14_Witness ==
    /\ NoneInCS
    /\ tail # NULL
    /\ head # tail
    /\ nodeArgs[tail] = 3
    /\ fillPtr = HeaderSize + 2 * NodeSize

\* A step in which the supervisor's Post or WaitForCompletion gives up the lock
ParentTimesOut == pc \in {"PostLock", "WfcLock"} /\ pc' = "QIdle"

\* A step in which worker w's GetNextRequest or FreeRequest gives up the lock
ChildTimesOut(w) == proc[w] \in {"GetLock", "FreeLock"} /\ proc'[w] = "Loop"

\* C15: a lock acquisition that times out makes the operation fail (Post and
\* WaitForCompletion return false, GetNextRequest returns NULL, FreeRequest
\* returns without linking the node) and changes no queue state: head, tail,
\* free, fillPtr and the nodes stay, and the lock stays held by its holder.
C15_TimeoutMutatesNothing ==
    [][/\ ParentTimesOut =>
            returned' = (IF pc = "PostLock" THEN "PostNoLock" ELSE "WfcNoLock")
       /\ \A w \in Slots : ChildTimesOut(w) =>
            /\ node'[w] = NULL
            /\ proc[w] = "FreeLock" => node[w] \notin Range(FreeList')
       /\ ParentTimesOut \/ (\E w \in Slots : ChildTimesOut(w)) =>
            /\ UNCHANGED <<head, tail, free, fillPtr, nodeNext, nodeArgs, posted,
                           detached>>
            /\ lock # 0
            /\ lock' # 0
            /\ InCS' = InCS]_vars

\* Post has given up while a worker is still inside the critical section,
\* holding the lock.
C15_Witness ==
    /\ returned = "PostNoLock"
    /\ lock = LOCKED
    /\ \E w \in Slots : w \in InCS

\* C16: under fair scheduling, with every worker eventually setting its
\* completion byte or ceasing to be alive, every call of Create (blocking
\* mode) returns in the supervisor, keep-idle workers included.
C16_CreateReturns == (pc = "PreFork") ~> (pc = "ret")

\* Create has returned true from a run of three workers, at most two at a
\* time, so that the fork loop waited, WaitForAll ended and KillAll ended.
C16_Witness ==
    /\ pc = "ret"
    /\ result
    /\ totalChildren = 3
    /\ maxChildCount = 2

\* The record the supervisor keeps of worker w, if it has one
Record(w) == IF w \in DOMAIN mChildrenPIDs THEN mChildrenPIDs[w] ELSE ChildPID

\* C17: a worker idling in Exit(true, true) has set its completion byte and
\* leaves the idle state only by dying, either of a SIGKILL sent to it or, on
\* its own, after the supervisor process is gone; the supervisor never reports
\* it as crashed, and no worker idles any more when Create has returned.
C17_KeepIdle ==
    /\ [](\A w \in Slots : proc[w] = "idle" =>
            /\ w \in DOMAIN mIsChildDone /\ mIsChildDone[w] = 1
            /\ ~(isCrashed /\ completedChildPID = Record(w).pid)
            /\ pc # "ret")
    /\ [][\A w \in Slots : proc[w] = "idle" /\ proc'[w] # "idle" =>
            /\ proc'[w] = "dead"
            /\ sigkill[w] \/ ~parentAlive]_vars

\* The supervisor is alive and has marked DONE the record of a worker that
\* is idling, alive, and has no SIGKILL pending yet.
C17_Witness ==
    \E w \in Slots :
        /\ proc[w] = "idle"
        /\ parentAlive
        /\ ~sigkill[w]
        /\ Record(w).status = "DONE"

\* C18: a Create called again after a run starts its fork loop as a fresh
\* instance would (totalChildren records, none forked; a completion array of
\* totalChildren bytes, all 0), and from then on a set byte or a DONE record
\* is the doing of a worker of this run: the byte of a worker that called
\* Exit(true), the record of a worker that set its byte or is gone.
C18_Reuse ==
    reused /\ pc \notin {"PreFork", "ret"} =>
        /\ pc = "ForkTop" /\ i = 0 =>
              /\ mChildrenPIDs = [k \in 0 .. (totalChildren - 1) |-> ChildPID]
              /\ mIsChildDone = [k \in 0 .. (totalChildren - 1) |-> 0]
              /\ mIsChildDoneSize = totalChildren
        /\ \A k \in DOMAIN mIsChildDone :
              mIsChildDone[k] = 1 => calledExit[k] = "true"
        /\ \A k \in DOMAIN mChildrenPIDs :
              /\ mChildrenPIDs[k].status # "NOT_RUNNING" => proc[k] # "none"
              /\ mChildrenPIDs[k].status = "DONE" =>
                    calledExit[k] = "true" \/ proc[k] = "dead"

\* The second Create of an instance has forked three workers and returned true.
C18_Witness ==
    /\ reused
    /\ pc = "ret"
    /\ result
    /\ totalChildren = 3

\* What the supervisor alone writes of the queue and of the pool (a worker
\* that outlives Destroy still writes its completion byte, the lock and the
\* lists)
SupervisorOwned ==
    <<pc, mRequestQueue, stop, fillPtr, mChildrenPIDs, mIsChildDoneSize,
      sigVars, waitVars, sigkill>>

\* C19: Destroy on a queue that has been destroyed changes no state, waits
\* for nothing and unmaps nothing: from then on no step changes anything the
\* supervisor writes.
C19_DestroyIdempotent ==
    [][pc = "QDestroyed" => UNCHANGED SupervisorOwned]_vars

\* Destroy has been called on a destroyed queue.
C19_Witness ==
    /\ pc = "QDestroyed"
    /\ returned = "DestroyNoop"
    /\ ~mRequestQueue
    /\ stop

\* C20 (as claimed): whenever WaitForOne has reported a worker as crashed,
\* that worker's completion byte is 0.
C20_CrashedMeansByteZero ==
    isCrashed =>
        \A k \in DOMAIN mIsChildDone \cap DOMAIN mChildrenPIDs :
            mChildrenPIDs[k].pid = completedChildPID => mIsChildDone[k] = 0

\* The number of worker records with status RUNNING
RunningCount ==
    Cardinality({k \in DOMAIN mChildrenPIDs : mChildrenPIDs[k].status = "RUNNING"})

\* The workers forked so far in this run
Forked == {w \in Slots : proc[w] # "none"}

\* The supervisor is inside Fork, after PreFork
InFork == pc \notin {"idle", "PreFork", "ret"}

\* The supervisor is in the fork loop and not between WaitForOne's return
\* and the update of childCount that follows it
AtLoop ==
    \/ pc \in {"ForkTop", "ForkDo"}
    \/ pc \in {"WaitForOne", "WfoProbe"} /\ wfoCaller = "Fork"

\* C21 (as claimed): throughout Fork, childCount equals the number of
\* records with status RUNNING.
C21_CountIsRunning == InFork => childCount = RunningCount

\* C21 (amended): in the fork loop childCount equals the number of RUNNING
\* records, but for the moment between WaitForOne marking a record DONE and
\* Fork's own update, when it is one more; it never exceeds min(N, M); the
\* workers forked are 0 .. i-1, at most N, worker k recorded at slot k; a fork
\* creates worker i and moves i on by one.
C21_ForkBookkeeping ==
    /\ [](InFork =>
            /\ AtLoop => childCount = RunningCount
            /\ pc = "ForkAfterWait" /\ completedChildPID # 0 =>
                    childCount = RunningCount + 1
            /\ childCount <= maxChildCount
            /\ maxChildCount <= totalChildren
            /\ Cardinality(Forked) <= totalChildren
            /\ pc \in {"ForkTop", "ForkDo", "ForkAfterWait"} =>
                    Forked = 0 .. (i - 1)
            /\ \A k \in DOMAIN mChildrenPIDs :
                    /\ k \notin Forked => mChildrenPIDs[k] = ChildPID
                    /\ k \in Forked => mChildrenPIDs[k].pid = k + 1
                    /\ k \in Forked /\ pc \notin {"KillAll", "KillWait", "PostFork"}
                            => mChildrenPIDs[k].status # "NOT_RUNNING")
    /\ [][\A w \in Slots : proc[w] = "none" /\ proc'[w] # "none" =>
            /\ w = i
            /\ i' = i + 1
            /\ childCount' = childCount + 1
            /\ Forked' = Forked \cup {w}]_vars

\* The loop waits a second time: three workers, one at a time, the first
\* two done, the third about to be forked.
C21_Witness ==
    /\ pc = "ForkDo"
    /\ i = 2
    /\ totalChildren = 3
    /\ maxChildCount = 1
    /\ childCount = 0

\* A step in which the supervisor unmaps the completion array or the
\* request queue
Unmaps ==
    \/ mIsChildDoneSize # 0 /\ mIsChildDoneSize' = 0
    \/ mRequestQueue /\ ~mRequestQueue'

\* C22 (as claimed): the supervisor unmaps the completion array or the
\* request queue only when no worker it forked is alive.
C22_UnmapAfterReclaim == [][Unmaps => AliveWorkers = {}]_vars

\* Destroy unmaps the request queue only when no worker is alive that has
\* not called Exit (this does not hold either).
UnmapAfterWorkEnded == [][Unmaps => WorkingWorkers = {}]_vars

\* The records the crash scan has not passed that are RUNNING while their
\* process is gone
CrashedRunning ==
    {k \in DOMAIN mChildrenPIDs :
        /\ k >= childIndex
        /\ mChildrenPIDs[k].status = "RUNNING"
        /\ ~IsProcessAlive(mChildrenPIDs[k].pid)}

\* A step that ends a crash scan that ran
ScanEnds == CrashScanCrashed \/ CrashScanEnd

\* C23 (as claimed): a crash scan that runs marks DONE every record that is
\* RUNNING while its process is gone.
C23_CrashScanMarksAll ==
    [][ScanEnds => \A k \in CrashedRunning : mChildrenPIDs'[k].status = "DONE"]_vars

\* C23 (amended): a crash scan that runs marks DONE the first record it finds
\* RUNNING with its process gone, and ends there; it changes no other record,
\* and Post / WaitForCompletion go on to their lock as after a scan that found
\* nothing.
C23_CrashScanMarksFirst ==
    [][/\ ScanEnds =>
            /\ \A k \in DOMAIN mChildrenPIDs :
                  mChildrenPIDs'[k] =
                      IF k \in CrashedRunning /\ \A j \in CrashedRunning : k <= j
                      THEN [mChildrenPIDs[k] EXCEPT !.status = "DONE"]
                      ELSE mChildrenPIDs[k]
            /\ pc' = (IF pc = "PostScan" THEN "PostLock" ELSE "WfcLock")
            /\ UNCHANGED <<shmVars, histVars, args, procVars>>
       /\ pc \in {"PostScan", "WfcScan"} /\ mChildrenPIDs' # mChildrenPIDs =>
            ScanEnds]_vars

\* A scan has just ended in Post: it marked worker 0, which is gone, and
\* left RUNNING the record of worker 1, which is gone as well.
C23_Witness ==
    /\ pc = "PostLock"
    /\ waitUseconds[PARENT] = LockBudget
    /\ Size(mChildrenPIDs) = 2
    /\ mChildrenPIDs[0].status = "DONE" /\ proc[0] = "dead"
    /\ mChildrenPIDs[1].status = "RUNNING" /\ proc[1] = "dead"

\* The nodes carved from the arena
Carved == {a \in NodeAddrs : a < fillPtr}

\* How many times a occurs in the sequence q
Count(q, a) == Cardinality({k \in 1 .. Len(q) : q[k] = a})

\* The workers that dequeued node a and have not freed it
HeldBy(a) == {w \in Slots : node[w] = a}

\* C24 (as claimed): whenever no process is inside a queue critical section,
\* every carved node is in exactly one place (the active list, the free chain,
\* or the one worker that dequeued it and has not freed it), the two lists are
\* acyclic and disjoint and hold carved nodes only, and no more than
\* maxRequestCount nodes are carved.
C24_Partition ==
    NoneInCS =>
        /\ \A a \in Carved :
              Count(ActiveList, a) + Count(FreeList, a) + Cardinality(HeldBy(a)) = 1
        /\ Len(ActiveList) <= Cardinality(Carved)
        /\ Len(FreeList) <= Cardinality(Carved)
        /\ Range(ActiveList) \cup Range(FreeList) \subseteq Carved
        /\ Cardinality(Carved) <= maxRequestCount

\* What does hold of the nodes: whenever no process is inside a queue
\* critical section, no carved node is in two places, the two lists are
\* acyclic and hold carved nodes only, and no more than maxRequestCount nodes
\* are carved.
NoNodeInTwoPlaces ==
    NoneInCS =>
        /\ \A a \in Carved :
              Count(ActiveList, a) + Count(FreeList, a) + Cardinality(HeldBy(a)) <= 1
        /\ Len(ActiveList) <= Cardinality(Carved)
        /\ Len(FreeList) <= Cardinality(Carved)
        /\ Range(ActiveList) \cup Range(FreeList) \subseteq Carved
        /\ Cardinality(Carved) <= maxRequestCount

\* WaitForOne has just returned to its caller
WfoReturned == pc \in {"ForkAfterWait", "WaitForAllCheck"}

\* A step in which WaitForOne returns
WfoReturns == pc \in {"WaitForOne", "WfoProbe"} /\ pc' \in {"ForkAfterWait", "WaitForAllCheck"}

\* The slot of the worker WaitForOne returned, or -1
ReturnedSlot == completedChildPID - 1

\* The lowest slot of a non-empty set of slots
Lowest(S) == CHOOSE j \in S : \A h \in S : j <= h

\* C25 (as claimed): when several RUNNING workers had their completion byte
\* set at the start of the pass in which WaitForOne returned, it returned the
\* pid of the one with the lowest slot index.
C25_LowestSetReturned ==
    WfoReturned /\ Cardinality(passDone) >= 2 =>
        /\ ReturnedSlot = Lowest(passDone)
        /\ ~isCrashed

\* C25 (amended): a call made when no record is RUNNING returns 0 with
\* isCrashed = false and changes no record, and 0 is returned in no other
\* case; when RUNNING workers had their byte set at the start of the pass,
\* WaitForOne returns in that pass the lowest of them or a RUNNING worker of
\* lower slot index, one that set its byte during the pass or that the probe
\* found gone; every non-zero return changes exactly one record, the returned
\* worker's, from RUNNING to DONE, and no other step of WaitForOne changes a
\* record.
C25_WaitForOneResult ==
    /\ [](WfoReturned /\ passDone # {} =>
            /\ ReturnedSlot \in 0 .. Lowest(passDone)
            /\ ReturnedSlot < Lowest(passDone) =>
                    isCrashed \/ mIsChildDone[ReturnedSlot] = 1
            /\ ReturnedSlot = Lowest(passDone) => ~isCrashed)
    /\ [][/\ WfoReturns /\ RunningCount = 0 =>
                /\ completedChildPID' = 0
                /\ ~isCrashed'
                /\ mChildrenPIDs' = mChildrenPIDs
          /\ WfoReturns /\ completedChildPID' = 0 => RunningCount = 0
          /\ WfoReturns /\ completedChildPID' # 0 =>
                \E k \in DOMAIN mChildrenPIDs :
                    /\ mChildrenPIDs[k].status = "RUNNING"
                    /\ mChildrenPIDs[k].pid = completedChildPID'
                    /\ mChildrenPIDs' = SetStatus(mChildrenPIDs, k, "DONE")
          /\ pc \in {"WaitForOne", "WfoProbe"} /\ ~WfoReturns =>
                mChildrenPIDs' = mChildrenPIDs]_vars

\* WaitForOne has returned worker 1 as completed, the lowest of the two
\* workers, 1 and 2, whose bytes were set at the start of that pass; worker 0
\* was not RUNNING any more.
C25_Witness ==
    /\ WfoReturned
    /\ passDone = {1, 2}
    /\ ReturnedSlot = 1
    /\ ~isCrashed

\* C26: under fair scheduling, with stop clear, a worker alive, the user
\* function returning and no lock acquisition timing out, a WaitForCompletion
\* that has been called returns true; and it returns true only from the
\* critical section, holding the lock, with head == NULL.
C26_WaitForCompletionReturns ==
    /\ (pc = "WfcScan") ~> (returned = "WfcTrue")
    /\ [][returned' = "WfcTrue" /\ returned # "WfcTrue" =>
            /\ pc = "WfcCS"
            /\ lock = LOCKED
            /\ head = NULL]_vars

\* WaitForCompletion has returned true after three requests went through the
\* queue, of two workers one has crashed, and the call had to look more than
\* once (the survivor is still at work on the last request).
C26_Witness ==
    /\ returned = "WfcTrue"
    /\ Len(detached) = 3
    /\ \E w, v \in Slots : proc[w] = "dead" /\ proc[v] = "Call"

\* PRE_FORK, a CHILD_FORK for each of n workers, then POST_FORK and
\* CHILDREN_DONE if asked for
Notifications(n, post, done) ==
    <<"PRE_FORK">> \o [k \in 1 .. n |-> "CHILD_FORK"]
                   \o (IF post THEN <<"POST_FORK">> ELSE << >>)
                   \o (IF done THEN <<"CHILDREN_DONE">> ELSE << >>)

Emitted(notifyType) == \E k \in DOMAIN notified : notified[k] = notifyType

\* WaitForAll has returned to Fork
AfterWaitForAll == Emitted("POST_FORK") /\ pc \in {"KillAll", "KillWait", "PostFork", "ret"}

\* C27: the supervisor's hook receives PRE_FORK once, then one CHILD_FORK
\* for each worker forked; POST_FORK follows once, after the fork loop, exactly
\* when all N were forked and the loop is left; CHILDREN_DONE comes at most
\* once, after POST_FORK, exactly when WaitForAll has finished with no crash
\* reported (Create then returns true); only a supervisor's step notifies.
C27_NotificationOrder ==
    /\ [](InFork \/ pc = "ret" =>
            /\ \/ notified = << >>
               \/ notified = Notifications(Cardinality(Forked), Emitted("POST_FORK"),
                                           Emitted("CHILDREN_DONE"))
            /\ notified = << >> => Forked = {} /\ ~result
            /\ Emitted("POST_FORK") <=>
                    /\ Cardinality(Forked) = totalChildren
                    /\ result \/ AfterWaitForAll
                    /\ pc \notin {"ForkTop", "ForkDo", "ForkEnd"}
            /\ Emitted("CHILDREN_DONE") <=> AfterWaitForAll /\ result)
    /\ [][notified' # notified =>
            /\ pc' # pc
            /\ notified' = << >> \/ \E t \in {"PRE_FORK", "CHILD_FORK", "POST_FORK",
                                            "CHILDREN_DONE"} :
                    notified' = Append(notified, t)
            /\ Emitted("CHILDREN_DONE")' /\ ~Emitted("CHILDREN_DONE") =>
                    pc = "WaitForAllCheck" /\ ~isCrashed /\ completedChildPID = 0
            /\ \A w \in Slots : proc'[w] # proc[w] =>
                    proc[w] = "none" \/ notified' = << >>]_vars

\* Create has returned true after a run of three workers: five notifications
\* before CHILDREN_DONE.
C27_Witness ==
    /\ pc = "ret"
    /\ result
    /\ notified = Notifications(3, TRUE, TRUE)

\* Create has returned false after all three workers were forked and one
\* was then found crashed: POST_FORK without CHILDREN_DONE.
C27_WitnessCrashed ==
    /\ pc = "ret"
    /\ ~result
    /\ notified = Notifications(3, TRUE, FALSE)

\* (supporting, for the queue as well, where Destroy calls WaitForAll) the
\* notifications of a run come in the one order, each kind but CHILD_FORK
\* at most once
NotifiedInOrder ==
    \/ notified = << >>
    \/ notified = Notifications(Cardinality(Forked), Emitted("POST_FORK"),
                                Emitted("CHILDREN_DONE"))

\* Process p is inside QueueLock's constructor
Locking(p) ==
    IF p = PARENT THEN pc \in {"PostLock", "WfcLock"}
                  ELSE proc[p] \in {"GetLock", "FreeLock"}

\* The lock is held and no live process is in a critical section: its
\* holder died there, nobody will release it
LockOrphaned == lock = LOCKED /\ InCS = {}

\* C28: every QueueLock constructor that was entered is left; a process
\* leaves it holding the lock, which was free, or with its wait budget used
\* up, the lock untouched and its operation failing (or the process dies).
C28_LockAttemptEnds ==
    /\ \A p \in Procs : Locking(p) ~> ~Locking(p)
    /\ [][/\ Locking(PARENT) /\ ~Locking(PARENT)' =>
                \/ lock = 0 /\ lock' = LOCKED /\ InCS' = {PARENT}
                \/ /\ ParentTimesOut
                   /\ \E delay \in Delays : TimedOut(waitUseconds[PARENT] - delay)
                   /\ returned' \in {"PostNoLock", "WfcNoLock"}
                   /\ lock = LOCKED /\ lock' = LOCKED
          /\ \A w \in Slots : Locking(w) /\ ~Locking(w)' =>
                \/ lock = 0 /\ lock' = LOCKED /\ InCS' = {w}
                \/ /\ ChildTimesOut(w)
                   /\ \E delay \in Delays : TimedOut(waitUseconds[w] - delay)
                   /\ node'[w] = NULL
                   /\ lock = LOCKED /\ lock' = LOCKED
                \/ proc'[w] = "dead"]_vars

\* A worker has died inside a critical section; WaitForCompletion and the
\* other worker's FreeRequest are spinning on the lock it left, each with
\* one millisecond of its budget remaining.
C28_Witness ==
    /\ LockOrphaned
    /\ pc = "WfcLock"
    /\ waitUseconds[PARENT] = 1000
    /\ \E w, v \in Slots :
            /\ proc[w] = "dead"
            /\ proc[v] = "FreeLock"
            /\ waitUseconds[v] = 1000

\* Worker w has passed the loop's stop check and is inside GetNextRequest
CanStillDetach(w) == proc[w] \in {"GetLock", "GetCS"}

\* A step in which worker w detaches an item / lets go of the item it holds
Detaches(w) == node[w] = NULL /\ node'[w] # NULL
LetsGo(w) == node[w] # NULL /\ node'[w] = NULL

\* The items of the active list have not been passed to the user function
ActiveUndelivered == \A k \in 1 .. Len(ActiveList) : delivered[nodeArgs[ActiveList[k]]] = 0

\* With stop set: a worker that is not inside GetNextRequest does not enter
\* it again, and only a worker inside it detaches (so each detaches at most
\* one more item, and only if it had passed the check); a worker goes on to
\* Exit from the top of the loop only, holding nothing, and Exit(true) sets
\* its byte; once no worker is inside GetNextRequest the active list stays
\* as it is and its items are never passed to the user function.
StopSteps ==
    stop =>
        /\ stop'
        /\ \A w \in Slots :
            /\ ~CanStillDetach(w) => ~CanStillDetach(w)'
            /\ Detaches(w) => CanStillDetach(w) /\ proc'[w] = "Call"
            /\ proc[w] = "Loop" /\ proc'[w] # proc[w] => proc'[w] \in {"run", "dead"}
            /\ proc[w] # "run" /\ proc'[w] = "run" => proc[w] = "Loop" /\ node[w] = NULL
            /\ proc[w] = "run" /\ proc'[w] # proc[w] =>
                    /\ proc'[w] = "wrote"
                    /\ calledExit'[w] = "true"
                    /\ mIsChildDone'[w] # 0
        /\ (\A w \in Slots : ~CanStillDetach(w)) =>
            /\ ActiveList' = ActiveList
            /\ ActiveUndelivered /\ ActiveUndelivered'

====
